---- MODULE Spec2Model ----
(***************************************************************************)
(* Model of util/svdgen/lib.py: the conversion of validated top-level and  *)
(* IP-module HJSON into an SVD <device> tree.                              *)
(*                                                                         *)
(* Conventions.                                                            *)
(*  - A Python str is a sequence of one-character strings, so that         *)
(*    casefold(), find(), += and the number formats are computed.          *)
(*  - Python None is the empty tuple; a value handed to svd_node is None   *)
(*    or a tagged value <<"str", s>>, <<"int", n>>, <<"enum", e>>.         *)
(*  - An HJSON dict is a record; d.get(k) is Get(d, k), which wraps a      *)
(*    present value in a 1-tuple and yields None for an absent key.        *)
(*  - A function that may raise returns Ok(value) or Raise(error).         *)
(***************************************************************************)
EXTENDS Integers, Sequences, FiniteSets, TLC

VARIABLES
    pc,         \* position of the run: which function has been applied
    arg,        \* the HJSON handed to the function under study
    base,       \* the `base` argument of the register generators
    ret,        \* what the function returned (None when it raised)
    err,        \* the exception that ended the call, or None
    top,        \* top-level HJSON of convert_top_to_svd
    ips,        \* IP definitions by module type
    verify,     \* the `verify` argument of convert_top_to_svd
    root,       \* the tree convert_top_to_svd returned, or None
    output      \* documents written by write_svd

vars == <<pc, arg, base, ret, err, top, ips, verify, root, output>>

----------------------------------------------------------------------------
(* Bounds of the explored inputs.                                          *)

MaxWidth == 4
MaxLsb == 8
MaxItems == 2
MaxModules == 2
MaxGenregs == 3
MaxRegs == 2
MaxIrqs == 3

----------------------------------------------------------------------------
(* Python values.                                                          *)

None == <<>>

S(s) == <<"str", s>>
I(n) == <<"int", n>>
E(e) == <<"enum", e>>

Get(d, k) == IF k \in DOMAIN d THEN <<d[k]>> ELSE None

Ok(v) == [ok |-> TRUE, val |-> v, err |-> None]
Raise(e) == [ok |-> FALSE, val |-> None, err |-> e]

\* the rest of a function body after a call that may raise
Then(r, rest(_)) == IF r.ok THEN rest(r.val) ELSE r
Map(r, f(_)) == IF r.ok THEN Ok(f(r.val)) ELSE r

KeyError(k) == <<"KeyError", k>>
SystemExit(msg) == <<"SystemExit", msg>>

Digit(d) ==
    <<"0", "1", "2", "3", "4", "5", "6", "7", "8", "9",
      "a", "b", "c", "d", "e", "f">>[d + 1]

RECURSIVE Digits(_, _)
Digits(n, radix) ==
    IF n < radix THEN <<Digit(n)>>
    ELSE Digits(n \div radix, radix) \o <<Digit(n % radix)>>

\* str(n) and '%d' % n
Dec(n) == IF n < 0 THEN <<"-">> \o Digits(-n, 10) ELSE Digits(n, 10)

\* hex(n)
Hex(n) == IF n < 0 THEN <<"-", "0", "x">> \o Digits(-n, 16)
          ELSE <<"0", "x">> \o Digits(n, 16)

UpperCase == <<"A", "B", "C", "D", "E", "F", "G", "H", "I", "J", "K", "L", "M",
               "N", "O", "P", "Q", "R", "S", "T", "U", "V", "W", "X", "Y", "Z">>
LowerCase == <<"a", "b", "c", "d", "e", "f", "g", "h", "i", "j", "k", "l", "m",
               "n", "o", "p", "q", "r", "s", "t", "u", "v", "w", "x", "y", "z">>

\* str.casefold(), on the ASCII letters
CaseFold(s) ==
    [i \in 1..Len(s) |->
        IF \E k \in 1..Len(UpperCase) : UpperCase[k] = s[i]
        THEN LowerCase[CHOOSE k \in 1..Len(UpperCase) : UpperCase[k] = s[i]]
        ELSE s[i]]

case_compare(left, right) == CaseFold(left) = CaseFold(right)

\* str.find(sub): the lowest 0-based index at which sub occurs, or -1
Find(s, sub) ==
    LET hits == {i \in 1..(Len(s) - Len(sub) + 1) :
                    SubSeq(s, i, i + Len(sub) - 1) = sub}
    IN  IF hits = {} THEN -1
        ELSE (CHOOSE i \in hits : \A j \in hits : i <= j) - 1

Whitespace == {" ", "\n", "\t"}

RECURSIVE LStrip(_)
LStrip(s) == IF s # <<>> /\ Head(s) \in Whitespace THEN LStrip(Tail(s)) ELSE s

RECURSIVE RStrip(_)
RStrip(s) ==
    IF s # <<>> /\ s[Len(s)] \in Whitespace
    THEN RStrip(SubSeq(s, 1, Len(s) - 1)) ELSE s

\* str.strip()
Strip(s) == RStrip(LStrip(s))

\* The text of a pysvd enum member is its SVD spelling.
EnumText(e) ==
    CASE e = "access.read_only"  -> <<"r","e","a","d","-","o","n","l","y">>
      [] e = "access.read_write" -> <<"r","e","a","d","-","w","r","i","t","e">>
      [] e = "access.write_only" -> <<"w","r","i","t","e","-","o","n","l","y">>
      [] e = "readAction.clear"  -> <<"c","l","e","a","r">>
      [] e = "modifiedWriteValues.oneToClear"
                                 -> <<"o","n","e","T","o","C","l","e","a","r">>
      [] e = "modifiedWriteValues.oneToSet"
                                 -> <<"o","n","e","T","o","S","e","t">>
      [] e = "modifiedWriteValues.zeroToClear"
                                 -> <<"z","e","r","o","T","o","C","l","e","a","r">>
      [] e = "cpuName.other"     -> <<"o","t","h","e","r">>
      [] e = "endian.little"     -> <<"l","i","t","t","l","e">>

\* str(value)
PyStr(v) ==
    CASE v[1] = "str"  -> v[2]
      [] v[1] = "int"  -> Dec(v[2])
      [] v[1] = "enum" -> EnumText(v[2])

hex_or_none(num) == IF num = None THEN None ELSE S(Hex(num[1]))

----------------------------------------------------------------------------
(* XML elements.                                                           *)

\* ET.Element(tag): no text, no tail, no children
Element(tag) ==
    [tag |-> tag, attrib |-> <<>>, text |-> None, tail |-> None,
     children |-> <<>>]

\* ET.Comment(text)
Comment(text) == [Element("!comment") EXCEPT !.text = <<text>>]

extend_node(element, elements) ==
    [element EXCEPT !.children = @ \o elements]

RECURSIVE TextNodes(_)
TextNodes(texts) ==
    IF texts = <<>> THEN <<>>
    ELSE LET tag == Head(texts)[1]
             value == Head(texts)[2]
         IN  IF value = None THEN TextNodes(Tail(texts))
             ELSE <<[Element(tag) EXCEPT !.text = <<PyStr(value)>>]>>
                  \o TextNodes(Tail(texts))

\* svd_node(element, **texts): texts is the keyword list, in call order
svd_node(element, texts) ==
    [element EXCEPT !.children = @ \o TextNodes(texts)]

\* element.find('./' + tag): the first child with that tag, as an index (0: none)
FindChild(element, tag) ==
    LET hits == {i \in 1..Len(element.children) : element.children[i].tag = tag}
    IN  IF hits = {} THEN 0 ELSE CHOOSE i \in hits : \A j \in hits : i <= j

ChildrenTagged(element, tag) ==
    SelectSeq(element.children, LAMBDA c : c.tag = tag)

ChildText(element, tag) == element.children[FindChild(element, tag)].text[1]

----------------------------------------------------------------------------
(* Leaf converters.                                                        *)

read_only == E("access.read_only")
read_write == E("access.read_write")
write_only == E("access.write_only")
clear_on_read == E("readAction.clear")
one_clears == E("modifiedWriteValues.oneToClear")
one_sets == E("modifiedWriteValues.oneToSet")
zero_clears == E("modifiedWriteValues.zeroToClear")

modes ==
    (None      :> <<None,       None,          None>>) @@
    (<<"ro">>    :> <<read_only,  None,          None>>) @@
    (<<"rc">>    :> <<read_only,  clear_on_read, None>>) @@
    (<<"rw">>    :> <<read_write, None,          None>>) @@
    (<<"r0w1c">> :> <<write_only, None,          one_clears>>) @@
    (<<"rw1s">>  :> <<read_write, None,          one_sets>>) @@
    (<<"rw1c">>  :> <<read_write, None,          one_clears>>) @@
    (<<"rw0c">>  :> <<read_write, None,          zero_clears>>) @@
    (<<"wo">>    :> <<write_only, None,          None>>)

sw_access_modes_r0w1c(reg_or_field) ==
    LET key == Get(reg_or_field, "swaccess")
    IN  IF key = <<"r0w1c">> THEN Ok(modes[<<"rw1c">>])
        ELSE IF key \in DOMAIN modes THEN Ok(modes[key])
        ELSE Raise(KeyError(key[1]))

sw_access_modes(reg_or_field) ==
    LET key == Get(reg_or_field, "swaccess")
    IN  IF key \in DOMAIN modes THEN Ok(modes[key])
        ELSE Raise(KeyError(key[1]))

\* bitinfo is (mask, width, lsb): Python's bitinfo[1], bitinfo[2]
generate_bitrange_exclusive(bitinfo) ==
    LET width == bitinfo[2]
        lsb == bitinfo[3]
    IN  <<"[">> \o Dec(lsb + width) \o <<":">> \o Dec(lsb) \o <<"]">>

generate_bitrange(bitinfo) ==
    LET width == bitinfo[2]
        lsb == bitinfo[3]
    IN  <<"[">> \o Dec(lsb + width - 1) \o <<":">> \o Dec(lsb) \o <<"]">>

generate_field(bits) ==
    Map(sw_access_modes(bits), LAMBDA m :
        svd_node(Element("field"), <<
            <<"name", S(bits.name)>>,
            <<"description", S(bits.desc)>>,
            <<"bitRange", S(generate_bitrange(bits.bitinfo))>>,
            <<"access", m[1]>>,
            <<"readAction", m[2]>>,
            <<"modifiedWriteValues", m[3]>> >>))

----------------------------------------------------------------------------
(* Registers, windows and clusters.                                        *)

\* int(a / b) for b > 0: the quotient truncated towards zero
TruncDiv(a, b) == IF a >= 0 THEN a \div b ELSE -((-a) \div b)

RECURSIVE generate_fields(_)
generate_fields(fields) ==
    IF fields = <<>> THEN Ok(<<>>)
    ELSE Then(generate_field(Head(fields)), LAMBDA first :
            Map(generate_fields(Tail(fields)), LAMBDA rest : <<first>> \o rest))

is_flatten_any_lsb(reg) ==
    LET fields == Get(reg, "fields")
    IN  /\ fields # None
        /\ Len(fields[1]) = 1
        /\ case_compare(fields[1][1].name, reg.name)

\* fields[0]['bitinfo'][2] is the field's lsb
is_flatten(reg) ==
    LET fields == Get(reg, "fields")
    IN  /\ fields # None
        /\ Len(fields[1]) = 1
        /\ case_compare(fields[1][1].name, reg.name)
        /\ fields[1][1].bitinfo[3] = 0

\* generate_register.generate_all_fields: zero or one <fields> node
generate_all_fields(flatten, fields) ==
    IF ~flatten /\ fields # None
    THEN Map(generate_fields(fields[1]), LAMBDA all :
            <<extend_node(svd_node(Element("fields"), <<>>), all)>>)
    ELSE Ok(<<>>)

\* fields[0]['bitinfo'][1] is the field's width
FlattenedSize(reg) ==
    IF is_flatten(reg) THEN I(reg.fields[1].bitinfo[2]) ELSE None

\* the svd_node call of generate_register, given the addressOffset text
RegisterNode(reg, addressOffset, m) ==
    svd_node(Element("register"), <<
        <<"name", S(reg.name)>>,
        <<"description", S(reg.desc)>>,
        <<"addressOffset", addressOffset>>,
        <<"size", FlattenedSize(reg)>>,
        <<"mask", hex_or_none(Get(reg, "genbitsused"))>>,
        <<"resetValue", hex_or_none(Get(reg, "genresval"))>>,
        <<"resetMask", hex_or_none(Get(reg, "genresmask"))>>,
        <<"access", m[1]>>,
        <<"readAction", m[2]>>,
        <<"modifiedWriteValues", m[3]>> >>)

generate_register_absolute(reg, base_) ==
    Then(sw_access_modes(reg), LAMBDA m :
        IF "genoffset" \notin DOMAIN reg THEN Raise(KeyError("genoffset"))
        ELSE Map(generate_all_fields(is_flatten(reg), Get(reg, "fields")),
                 LAMBDA all :
                    extend_node(RegisterNode(reg,
                        hex_or_none(<<reg.genoffset>>), m), all)))

generate_register(reg, base_) ==
    Then(sw_access_modes(reg), LAMBDA m :
        IF "genoffset" \notin DOMAIN reg THEN Raise(KeyError("genoffset"))
        ELSE Map(generate_all_fields(is_flatten(reg), Get(reg, "fields")),
                 LAMBDA all :
                    extend_node(RegisterNode(reg,
                        hex_or_none(<<reg.genoffset - base_>>), m), all)))

Placeholder == <<"%", "s">>

\* the tail of generate_dim_register: name.text += '%s' unless it holds '%s'
AppendPlaceholder(window) ==
    LET i == FindChild(window, "name")
        text == window.children[i].text[1]
    IN  IF Find(text, Placeholder) < 0
        THEN [window EXCEPT !.children[i].text = <<text \o Placeholder>>]
        ELSE window

AlwaysAppendPlaceholder(window) ==
    LET i == FindChild(window, "name")
    IN  [window EXCEPT !.children[i].text = <<@[1] \o Placeholder>>]

DimNode(register, window) ==
    svd_node(register, <<
        <<"dim", I(window.items)>>,
        <<"dimIncrement",
          hex_or_none(<<TruncDiv(window.genvalidbits, 8)>>)>> >>)

generate_dim_register_always_append(window, base_) ==
    Map(generate_register(window, base_), LAMBDA register :
        AlwaysAppendPlaceholder(DimNode(register, window)))

generate_dim_register(window, base_) ==
    Map(generate_register(window, base_), LAMBDA register :
        AppendPlaceholder(DimNode(register, window)))

MissingOffset == SystemExit("could not determine register \"genoffset\"")
NestedMultireg == SystemExit("nesting \"multireg\" elements is not supported")
EmptyMin == <<"ValueError", "min() arg is an empty sequence">>

read_genoffset(reg) ==
    IF "genoffset" \in DOMAIN reg THEN Ok(reg.genoffset)
    ELSE IF "window" \in DOMAIN reg THEN Ok(reg.window.genoffset)
    ELSE Raise(MissingOffset)

\* min(map(read_genoffset, genregs)): the first raise in list order wins
MinGenoffset(genregs) ==
    LET offs == [i \in 1..Len(genregs) |-> read_genoffset(genregs[i])]
        bad == {i \in 1..Len(genregs) : ~offs[i].ok}
    IN  IF bad # {} THEN offs[CHOOSE i \in bad : \A j \in bad : i <= j]
        ELSE IF genregs = <<>> THEN Raise(EmptyMin)
        ELSE Ok(CHOOSE v \in {offs[i].val : i \in 1..Len(genregs)} :
                    \A i \in 1..Len(genregs) : v <= offs[i].val)

ClusterNode(multi, lowest) ==
    svd_node(Element("cluster"), <<
        <<"name", S(multi.name)>>,
        <<"description", S(multi.desc)>>,
        <<"addressOffset", hex_or_none(<<lowest>>)>> >>)

RECURSIVE generate_all_registers(_, _)
RECURSIVE generate_cluster(_, _)

One(node) == <<node>>

generate_entry_window_first(reg, base_) ==
    IF "window" \in DOMAIN reg
    THEN Map(generate_dim_register(reg.window, base_), One)
    ELSE IF "reserved" \in DOMAIN reg \/ "skipto" \in DOMAIN reg THEN Ok(<<>>)
    ELSE IF "sameaddr" \in DOMAIN reg
    THEN generate_all_registers(reg.sameaddr, base_)
    ELSE IF "multireg" \in DOMAIN reg
    THEN Map(generate_cluster(reg.multireg, base_), One)
    ELSE Map(generate_register(reg, base_), One)

\* one iteration of the loop of generate_all_registers
generate_entry(reg, base_) ==
    IF "reserved" \in DOMAIN reg \/ "skipto" \in DOMAIN reg THEN Ok(<<>>)
    ELSE IF "window" \in DOMAIN reg
    THEN Map(generate_dim_register(reg.window, base_), One)
    ELSE IF "sameaddr" \in DOMAIN reg
    THEN generate_all_registers(reg.sameaddr, base_)
    ELSE IF "multireg" \in DOMAIN reg
    THEN Map(generate_cluster(reg.multireg, base_), One)
    ELSE Map(generate_register(reg, base_), One)

generate_all_registers_reversed(regs, base_) ==
    IF regs = <<>> THEN Ok(<<>>)
    ELSE Then(generate_entry(Head(regs), base_), LAMBDA first :
            Map(generate_all_registers(Tail(regs), base_), LAMBDA rest :
                rest \o first))

generate_all_registers(regs, base_) ==
    IF regs = <<>> THEN Ok(<<>>)
    ELSE Then(generate_entry(Head(regs), base_), LAMBDA first :
            Map(generate_all_registers(Tail(regs), base_), LAMBDA rest :
                first \o rest))

generate_cluster(multi, base_) ==
    IF base_ # 0 THEN Raise(NestedMultireg)
    ELSE Then(MinGenoffset(multi.genregs), LAMBDA lowest :
            Map(generate_all_registers(multi.genregs, lowest), LAMBDA members :
                extend_node(ClusterNode(multi, lowest), members)))

----------------------------------------------------------------------------
(* Peripherals and the device.                                             *)

\* enumerate(irqs): num is the 0-based position
generate_all_interrupts_one_based(irqs) ==
    IF irqs = None THEN <<>>
    ELSE [k \in 1..Len(irqs[1]) |->
            svd_node(Element("interrupt"), <<
                <<"name", S(irqs[1][k].name)>>,
                <<"value", I(k)>> >>)]

generate_all_interrupts(irqs) ==
    IF irqs = None THEN <<>>
    ELSE [k \in 1..Len(irqs[1]) |->
            svd_node(Element("interrupt"), <<
                <<"name", S(irqs[1][k].name)>>,
                <<"value", I(k - 1)>> >>)]

EndOf(name) == <<"e", "n", "d", " ", "o", "f", " ">> \o name

generate_peripheral(module, ip) ==
    LET registers == svd_node(Element("registers"), <<>>)
        peripheral == svd_node(Element("peripheral"), <<
            <<"name", S(module.name)>>,
            <<"baseAddress", S(module.base_addr)>> >>)
    IN  Map(generate_all_registers(ip.registers, 0), LAMBDA regs :
            extend_node(peripheral,
                generate_all_interrupts(Get(ip, "interrupt_list"))
                \o <<extend_node(registers, regs)>>
                \o <<Comment(EndOf(module.name))>>))

\* one element of the generator expression of generate_peripherals
generate_next_peripheral(module, ips_) ==
    IF module.type \notin DOMAIN ips_ THEN Raise(KeyError(module.type))
    ELSE generate_peripheral(module, ips_[module.type])

\* the generator expression of generate_peripherals, drawn in module order
RECURSIVE generate_each_peripheral_skipping(_, _)
generate_each_peripheral_skipping(modules, ips_) ==
    IF modules = <<>> THEN Ok(<<>>)
    ELSE LET first == generate_next_peripheral(Head(modules), ips_)
         IN  Map(generate_each_peripheral_skipping(Tail(modules), ips_),
                 LAMBDA rest : IF first.ok THEN <<first.val>> \o rest ELSE rest)

RECURSIVE generate_each_peripheral(_, _)
generate_each_peripheral(modules, ips_) ==
    IF modules = <<>> THEN Ok(<<>>)
    ELSE Then(generate_next_peripheral(Head(modules), ips_), LAMBDA first :
            Map(generate_each_peripheral(Tail(modules), ips_), LAMBDA rest :
                <<first>> \o rest))

generate_peripherals(modules, ips_) ==
    Map(generate_each_peripheral(modules, ips_), LAMBDA peripherals :
        extend_node(svd_node(Element("peripherals"), <<>>), peripherals))

generate_cpu ==
    svd_node(Element("cpu"), <<
        <<"name", E("cpuName.other")>>,
        <<"endian", E("endian.little")>>,
        <<"revision", I(0)>>,
        <<"mpuPresent", S(<<"f", "a", "l", "s", "e">>)>>,
        <<"fpuPresent", S(<<"f", "a", "l", "s", "e">>)>>,
        <<"nvicPrioBits", I(0)>>,
        <<"vendorSystickConfig", S(<<"f", "a", "l", "s", "e">>)>> >>)

DeviceAttrib ==
    << <<"schemaVersion", "1.1">>,
       <<"xmlns:xs", "http://www.w3.org/2001/XMLSchema-instance">>,
       <<"xs:noNamespaceSchemaLocation", "CMSIS-SVD.xsd">> >>

DeviceNode(top_, version, description) ==
    svd_node([Element("device") EXCEPT !.attrib = DeviceAttrib], <<
        <<"vendor", S(<<"l", "o", "w", "R", "I", "S", "C">>)>>,
        <<"name", S(top_.name)>>,
        <<"version", S(version)>>,
        <<"description", S(description)>>,
        <<"width", I(top_.datawidth)>>,
        <<"size", I(top_.datawidth)>>,
        <<"addressUnitBits", I(8)>> >>)

generate_device(top_, ips_, version, description) ==
    Map(generate_peripherals(top_.module, ips_), LAMBDA peripherals :
        extend_node(DeviceNode(top_, version, description),
                    <<generate_cpu, peripherals>>))

RECURSIVE indent_tree(_, _)
indent_tree(element, indent) ==
    LET is_parent == Len(element.children) # 0
        text == IF is_parent THEN <<indent \o <<" ", " ">> >>
                ELSE IF element.text # None THEN <<Strip(element.text[1])>>
                ELSE element.text
        kids == [i \in 1..Len(element.children) |->
                    indent_tree(element.children[i], indent \o <<" ", " ">>)]
    IN  [element EXCEPT
            !.text = text,
            !.tail = <<indent>>,
            !.children = IF is_parent
                         THEN [kids EXCEPT ![Len(kids)].tail = <<indent>>]
                         ELSE kids]

\* convert_top_to_svd up to the pysvd check: the indented tree, or the raise
ConvertTree(top_, ips_, version, description) ==
    Map(generate_device(top_, ips_, version, description), LAMBDA device :
        indent_tree(device, <<"\n">>))

GENHDR == <<"g", "e", "n", "e", "r", "a", "t", "e", "d">>

\* write_svd: the header comment, tail '\n', then the device
WrittenDocument(device) ==
    <<[Comment(GENHDR) EXCEPT !.tail = << <<"\n">> >>], device>>

----------------------------------------------------------------------------
(* Inputs: validated HJSON as reggen and topgen hand it over, together     *)
(* with the malformed entries the error paths are written for.             *)

FOO == <<"F", "O", "O">>
Foo == <<"F", "o", "o">>
foo == <<"f", "o", "o">>
BAR == <<"B", "A", "R">>
BUF == <<"B", "U", "F">>
Desc == <<"d">>

\* label is None or a 1-tuple holding the swaccess string
WithAccess(d, label) ==
    IF label = None THEN d ELSE d @@ [swaccess |-> label[1]]

Field(name, width, lsb, label) ==
    WithAccess([name |-> name, desc |-> Desc, bitinfo |-> <<0, width, lsb>>],
               label)

Reg(name, genoffset, label) ==
    WithAccess([name |-> name, desc |-> Desc, genoffset |-> genoffset], label)

WithFields(reg, fields) == reg @@ [fields |-> fields]

WithReset(reg) ==
    reg @@ [genbitsused |-> 255, genresval |-> 0, genresmask |-> 255]

Window(name, genoffset, items, validbits) ==
    [window |-> Reg(name, genoffset, <<"rw">>) @@
                [items |-> items, genvalidbits |-> validbits]]

Labels == DOMAIN modes
BadLabels == {<<"rx">>, <<"RW">>, <<"w1c">>}

FieldInputs ==
    {Field(foo, w, l, a) :
        w \in 0..MaxWidth, l \in 0..MaxLsb, a \in Labels \cup BadLabels}

RegWidths == {1, 8, 16, 32}

FieldLists ==
    {<<>>}
    \cup {<<Field(n, w, l, <<"rw">>)>> :
            n \in {foo, FOO, Foo, BAR}, w \in RegWidths, l \in {0, 1}}
    \cup {<<Field(foo, w, 0, <<"ro">>), Field(BAR, 1, w, <<"rw1c">>)>> :
            w \in RegWidths}
    \cup {<<Field(FOO, 8, 0, <<"rx">>)>>,
          <<Field(BAR, 8, 0, None), Field(foo, 8, 8, <<"w1c">>)>>}

RegInputs ==
    LET bare == {Reg(n, o, a) :
                    n \in {FOO, BAR}, o \in {4, 16},
                    a \in {None, <<"rw">>, <<"r0w1c">>, <<"rx">>}}
        shaped == bare \cup {WithFields(r, fs) : r \in bare, fs \in FieldLists}
    IN  shaped \cup {WithReset(r) : r \in shaped}

WindowNames ==
    {BUF, BUF \o <<"%", "s">>, <<"B", "%", "s", "U", "F">>, <<"%", "s">>,
     BUF \o <<"%">>, <<"s", "%">>, <<"%", "%", "s">>}

WindowInputs ==
    {Window(n, o, i, v).window :
        n \in WindowNames, o \in {4, 16}, i \in 1..MaxItems,
        v \in {8, 12, 16, 32}}
    \cup {WithFields(Window(BUF, 4, i, 32).window, <<Field(n, 32, 0, <<"rw">>)>>) :
            i \in 1..MaxItems, n \in {BUF, BAR}}

Multireg(name, genregs) ==
    [multireg |-> [name |-> name, desc |-> Desc, genregs |-> genregs]]

\* the members a multireg's genregs is drawn from
GenregMembers ==
    {Reg(FOO, 0, <<"rw">>),
     Reg(FOO, 16, <<"rw">>),
     WithFields(Reg(BAR, 20, <<"ro">>), <<Field(BAR, 8, 0, <<"ro">>)>>),
     Reg(BUF, 24, None),
     Window(BUF, 20, 2, 32),
     [reserved |-> 2],
     [reserved |-> 2, genoffset |-> 16],
     [sameaddr |-> <<Reg(FOO, 24, <<"ro">>), Reg(BAR, 24, <<"wo">>)>>,
      genoffset |-> 24],
     Multireg(BAR, <<Reg(FOO, 20, <<"rw">>), Reg(BAR, 24, <<"rw">>)>>),
     Multireg(BAR, <<Reg(FOO, 20, <<"rw">>), Reg(BAR, 24, <<"rw">>)>>)
        @@ [genoffset |-> 20]}

RECURSIVE SeqsUpTo(_, _)
SeqsUpTo(set, n) ==
    IF n = 0 THEN {<<>>}
    ELSE LET shorter == SeqsUpTo(set, n - 1)
         IN  shorter \cup {Append(q, x) : q \in shorter, x \in set}

MultiInputs ==
    {Multireg(FOO, g).multireg : g \in SeqsUpTo(GenregMembers, MaxGenregs)}

\* the entries a register list is drawn from
ReservedEntries ==
    {[reserved |-> 1],
     [skipto |-> 32],
     [reserved |-> 1] @@ Window(BUF, 8, 2, 32),
     [skipto |-> 32] @@ Multireg(BAR, <<Reg(FOO, 8, <<"rw">>)>>),
     [reserved |-> 1, sameaddr |-> <<Reg(FOO, 8, <<"rw">>)>>]}

ListEntries ==
    {Reg(FOO, 0, <<"rw">>),
     WithFields(Reg(BAR, 4, <<"ro">>), <<Field(BAR, 8, 0, <<"ro">>)>>),
     Reg(BUF, 8, <<"rx">>),
     Window(BUF, 12, 2, 32),
     [reserved |-> 1],
     [skipto |-> 32],
     [sameaddr |-> <<Reg(FOO, 16, <<"ro">>), Reg(BAR, 16, <<"wo">>)>>],
     [sameaddr |-> <<Reg(Foo, 20, <<"ro">>), [reserved |-> 1],
                     Reg(BUF, 20, <<"wo">>)>>],
     Multireg(BAR, <<Reg(FOO, 24, <<"rw">>), Reg(BAR, 28, <<"rw">>)>>)}

RegListInputs == SeqsUpTo(ListEntries, MaxRegs)

IrqLists ==
    {None} \cup
    {<<[i \in 1..Len(q) |-> [name |-> q[i]]]>> :
        q \in SeqsUpTo({FOO, BAR}, MaxIrqs)}

Ip(irqs, registers) ==
    IF irqs = None THEN [registers |-> registers]
    ELSE [registers |-> registers, interrupt_list |-> irqs[1]]

BaseAddr == <<"0", "x", "4", "0">>

PeripheralInputs ==
    {[module |-> [name |-> FOO, type |-> "foo", base_addr |-> BaseAddr],
      ip |-> Ip(irqs, regs)] :
        irqs \in IrqLists,
        regs \in {<<>>, <<Reg(FOO, 0, <<"rw">>)>>, <<Reg(FOO, 0, <<"rx">>)>>}}

\* the IP definitions of the conversion runs, by module type
IpCatalogue ==
    [uart |-> Ip(<<<<[name |-> FOO], [name |-> BAR]>>>>,
                 <<Reg(FOO, 0, <<"rw">>), [reserved |-> 1],
                   Window(BUF, 8, 2, 32),
                   Multireg(BAR, <<Reg(FOO, 16, <<"rw">>),
                                   Reg(BAR, 20, <<"rw">>)>>)>>),
     gpio |-> Ip(None,
                 <<[sameaddr |-> <<Reg(FOO, 0, <<"ro">>), Reg(BAR, 0, <<"wo">>)>>],
                   WithFields(Reg(BAR, 4, <<"ro">>),
                              <<Field(BAR, 8, 0, <<"ro">>)>>)>>),
     rng |-> Ip(<<<<>>>>, <<>>),
     badaccess |-> Ip(<<<<[name |-> BUF]>>>>,
                      <<Reg(FOO, 0, <<"rw">>), Reg(BAR, 4, <<"rx">>)>>),
     nooffset |-> Ip(None,
                     <<Multireg(BAR, <<Reg(FOO, 16, <<"rw">>),
                                       [reserved |-> 1]>>)>>),
     nested |-> Ip(None,
                   <<Multireg(FOO, <<Reg(FOO, 16, <<"rw">>),
                        Multireg(BAR, <<Reg(BAR, 20, <<"rw">>)>>)
                            @@ [genoffset |-> 20]>>)>>)]

ModuleTypes == DOMAIN IpCatalogue \cup {"ghost"}

ModuleName(type) ==
    CASE type = "uart" -> <<"u", "a", "r", "t">>
      [] type = "gpio" -> <<"g", "p", "i", "o">>
      [] type = "rng" -> <<"r", "n", "g">>
      [] type = "badaccess" -> <<"b", "a">>
      [] type = "nooffset" -> <<"n", "o">>
      [] type = "nested" -> <<"n", "e">>
      [] type = "ghost" -> <<"g", "h">>

Modules ==
    {[name |-> ModuleName(t), type |-> t, base_addr |-> BaseAddr] :
        t \in ModuleTypes}

TopInputs ==
    {[name |-> <<"t", "o", "p">>, datawidth |-> 32, module |-> ms] :
        ms \in SeqsUpTo(Modules, MaxModules)}

CallInputs ==
    {[kind |-> "field", hjson |-> f, base |-> 0] : f \in FieldInputs}
    \cup {[kind |-> "register", hjson |-> r, base |-> b] :
            r \in RegInputs, b \in {0, 4}}
    \cup {[kind |-> "window", hjson |-> w, base |-> b] :
            w \in WindowInputs, b \in {0, 4}}
    \cup {[kind |-> "multireg", hjson |-> m, base |-> b] :
            m \in MultiInputs, b \in {0, 16}}
    \cup {[kind |-> "registers", hjson |-> l, base |-> 0] : l \in RegListInputs}
    \cup {[kind |-> "peripheral", hjson |-> p, base |-> 0] :
            p \in PeripheralInputs}
    \cup {[kind |-> "top", hjson |-> t, base |-> 0] : t \in TopInputs}

Version == <<"1">>
Description == <<"d", "e", "v">>

----------------------------------------------------------------------------
(* SpecCall: one function of the library applied to one input.             *)

InitCall ==
    /\ pc = "ready"
    /\ \E c \in CallInputs : arg = [kind |-> c.kind, hjson |-> c.hjson]
                             /\ base = c.base
    /\ ret = None
    /\ err = None
    /\ top = None
    /\ ips = None
    /\ verify = FALSE
    /\ root = None
    /\ output = <<>>

Returns(fn, result) ==
    /\ pc' = fn
    /\ ret' = result.val
    /\ err' = result.err
    /\ UNCHANGED <<arg, base, top, ips, verify, root, output>>

SwAccessModes ==
    /\ pc = "ready"
    /\ arg.kind \in {"field", "register"}
    /\ Returns("sw_access_modes", sw_access_modes(arg.hjson))

GenerateBitrange ==
    /\ pc = "ready"
    /\ arg.kind = "field"
    /\ Returns("generate_bitrange", Ok(generate_bitrange(arg.hjson.bitinfo)))

GenerateField ==
    /\ pc = "ready"
    /\ arg.kind = "field"
    /\ Returns("generate_field", generate_field(arg.hjson))

GenerateRegister ==
    /\ pc = "ready"
    /\ arg.kind = "register"
    /\ Returns("generate_register", generate_register(arg.hjson, base))

GenerateDimRegister ==
    /\ pc = "ready"
    /\ arg.kind = "window"
    /\ Returns("generate_dim_register", generate_dim_register(arg.hjson, base))

GenerateCluster ==
    /\ pc = "ready"
    /\ arg.kind = "multireg"
    /\ Returns("generate_cluster", generate_cluster(arg.hjson, base))

GenerateAllRegisters ==
    /\ pc = "ready"
    /\ arg.kind = "registers"
    /\ Returns("generate_all_registers", generate_all_registers(arg.hjson, base))

GeneratePeripheral ==
    /\ pc = "ready"
    /\ arg.kind = "peripheral"
    /\ Returns("generate_peripheral",
               generate_peripheral(arg.hjson.module, arg.hjson.ip))

GenerateDevice ==
    /\ pc = "ready"
    /\ arg.kind = "top"
    /\ Returns("generate_device",
               generate_device(arg.hjson, IpCatalogue, Version, Description))

NextCall ==
    \/ SwAccessModes
    \/ GenerateBitrange
    \/ GenerateField
    \/ GenerateRegister
    \/ GenerateDimRegister
    \/ GenerateCluster
    \/ GenerateAllRegisters
    \/ GeneratePeripheral
    \/ GenerateDevice

SpecCall == InitCall /\ [][NextCall]_vars

----------------------------------------------------------------------------
(* Spec: a run of convert_top_to_svd followed by write_svd.                *)

PysvdError == <<"pysvd", "Device">>

Init ==
    /\ pc = "ready"
    /\ top \in TopInputs
    /\ ips = IpCatalogue
    /\ verify \in BOOLEAN
    /\ root = None
    /\ output = <<>>
    /\ err = None
    /\ arg = None
    /\ base = 0
    /\ ret = None

\* convert_top_to_svd: the device is generated, indented, checked by pysvd
\* when verify is set (pysvd may reject the tree), and returned
ConvertTopToSvd ==
    /\ pc = "ready"
    /\ LET tree == ConvertTree(top, ips, Version, Description)
       IN  IF ~tree.ok
           THEN /\ pc' = "raised"
                /\ err' = tree.err
                /\ UNCHANGED root
           ELSE \/ /\ pc' = "returned"
                   /\ root' = <<tree.val>>
                   /\ UNCHANGED err
                \/ /\ verify
                   /\ pc' = "raised"
                   /\ err' = PysvdError
                   /\ UNCHANGED root
    /\ UNCHANGED <<arg, base, ret, top, ips, verify, output>>

\* the caller hands the returned tree to write_svd
WriteSvd ==
    /\ pc = "returned"
    /\ pc' = "written"
    /\ output' = output \o WrittenDocument(root[1])
    /\ UNCHANGED <<arg, base, ret, err, top, ips, verify, root>>

Next ==
    \/ ConvertTopToSvd
    \/ WriteSvd

Spec == Init /\ [][Next]_vars

----------------------------------------------------------------------------
(* Reading the emitted text back.                                          *)

DigitValue(c) ==
    LET hits == {d \in 0..15 : Digit(d) = c}
    IN  IF hits = {} THEN 16 ELSE CHOOSE d \in hits : TRUE

RECURSIVE NatValue(_, _)
NatValue(s, radix) ==
    IF Len(s) = 1 THEN DigitValue(s[1])
    ELSE NatValue(SubSeq(s, 1, Len(s) - 1), radix) * radix + DigitValue(s[Len(s)])

IsNumeral(s, radix) ==
    /\ s # <<>>
    /\ \A i \in 1..Len(s) : DigitValue(s[i]) < radix
    /\ Len(s) > 1 => s[1] # "0"

\* None, or <<n>> for the numeral of n
ParseNat(s, radix) == IF IsNumeral(s, radix) THEN <<NatValue(s, radix)>> ELSE None

ParseDec(s) == ParseNat(s, 10)

ParseInt(s) ==
    IF s # <<>> /\ s[1] = "-"
    THEN LET n == ParseNat(Tail(s), 10) IN IF n = None THEN None ELSE <<-n[1]>>
    ELSE ParseNat(s, 10)

ParseHex(s) ==
    IF Len(s) >= 3 /\ s[1] = "0" /\ s[2] = "x"
    THEN ParseNat(SubSeq(s, 3, Len(s)), 16)
    ELSE None

\* "[msb:lsb]" read back as <<msb, lsb>>, or None
ParseBitRange(s) ==
    LET colons == {i \in 1..Len(s) : s[i] = ":"}
    IN  IF Len(s) < 5 \/ s[1] # "[" \/ s[Len(s)] # "]" \/ Cardinality(colons) # 1
        THEN None
        ELSE LET c == CHOOSE i \in colons : TRUE
                 msb == ParseInt(SubSeq(s, 2, c - 1))
                 lsb == ParseInt(SubSeq(s, c + 1, Len(s) - 1))
             IN  IF msb = None \/ lsb = None THEN None ELSE <<msb[1], lsb[1]>>

RECURSIVE Flatten(_)
Flatten(seqs) == IF seqs = <<>> THEN <<>> ELSE Head(seqs) \o Flatten(Tail(seqs))

TextsOf(nodes, tag) == [k \in 1..Len(nodes) |-> ChildText(nodes[k], tag)]

IsReserved(entry) == "reserved" \in DOMAIN entry \/ "skipto" \in DOMAIN entry

\* the register dicts a register list emits a <register> for, in list order
RECURSIVE EmittedRegisters(_)
EmittedRegisters(regs) ==
    IF regs = <<>> THEN <<>>
    ELSE LET e == Head(regs)
             mine == IF IsReserved(e) THEN <<>>
                     ELSE IF "window" \in DOMAIN e THEN <<e.window>>
                     ELSE IF "sameaddr" \in DOMAIN e THEN EmittedRegisters(e.sameaddr)
                     ELSE IF "multireg" \in DOMAIN e THEN <<>>
                     ELSE <<e>>
         IN  mine \o EmittedRegisters(Tail(regs))

----------------------------------------------------------------------------
(* C1 *)

AbsoluteOffset(member) ==
    IF "genoffset" \in DOMAIN member THEN member.genoffset
    ELSE member.window.genoffset

LowestOffset(genregs) ==
    CHOOSE v \in {AbsoluteOffset(genregs[i]) : i \in 1..Len(genregs)} :
        \A i \in 1..Len(genregs) : v <= AbsoluteOffset(genregs[i])

\* C1: a cluster generate_cluster returns at incoming base 0 has addressOffset
\* equal to the lowest absolute offset of the members of genregs (the inner
\* window template's for a window member), and each <register> emitted in the
\* cluster has addressOffset equal to its absolute offset minus that lowest
\* offset, a non-negative hexadecimal number.
C1_ClusterOffsets ==
    (pc = "generate_cluster" /\ err = None) =>
        LET genregs == arg.hjson.genregs
            lowest == LowestOffset(genregs)
            registers == ChildrenTagged(ret, "register")
            members == EmittedRegisters(genregs)
        IN  /\ base = 0
            /\ ParseHex(ChildText(ret, "addressOffset")) = <<lowest>>
            /\ Len(registers) = Len(members)
            /\ \A k \in 1..Len(members) :
                /\ members[k].genoffset - lowest >= 0
                /\ ParseHex(ChildText(registers[k], "addressOffset"))
                     = <<members[k].genoffset - lowest>>

C1_Witness ==
    /\ pc = "generate_cluster"
    /\ err = None
    /\ [k \in 1..Len(arg.hjson.genregs) |-> AbsoluteOffset(arg.hjson.genregs[k])]
         = <<16, 20, 24>>
    /\ ChildText(ret, "addressOffset") = <<"0", "x", "1", "0">>
    /\ TextsOf(ChildrenTagged(ret, "register"), "addressOffset")
         = << <<"0", "x", "0">>, <<"0", "x", "4">>, <<"0", "x", "8">> >>

----------------------------------------------------------------------------
(* C2 *)

HasNestedMultireg(genregs) ==
    \E i \in 1..Len(genregs) :
        "multireg" \in DOMAIN genregs[i] /\ ~IsReserved(genregs[i])

HasOffset(member) == "genoffset" \in DOMAIN member \/ "window" \in DOMAIN member

\* C2: compiling a multireg whose genregs include another multireg entry
\* fails with the nesting error and returns no node, whatever offsets the
\* members carry (an outer cluster whose lowest member offset is 0 included).
C2_NestingRejected ==
    (/\ pc = "generate_cluster"
     /\ base = 0
     /\ HasNestedMultireg(arg.hjson.genregs)
     /\ \A i \in 1..Len(arg.hjson.genregs) : HasOffset(arg.hjson.genregs[i]))
        => (err = NestedMultireg /\ ret = None)

----------------------------------------------------------------------------
(* C3 *)

FlattenCase(reg) ==
    /\ "fields" \in DOMAIN reg
    /\ Len(reg.fields) = 1
    /\ CaseFold(reg.fields[1].name) = CaseFold(reg.name)
    /\ reg.fields[1].bitinfo[3] = 0

\* C3 as stated: a register with exactly one field, named like the register
\* up to case, at lsb 0, gets no <fields> child and a <size> child holding
\* the field's width in hexadecimal ("0x8" for width 8); any other register
\* gets no <size> child.
C3_FlattenHexSize ==
    (pc = "generate_register" /\ err = None) =>
        IF FlattenCase(arg.hjson)
        THEN /\ FindChild(ret, "fields") = 0
             /\ Len(ChildrenTagged(ret, "size")) = 1
             /\ ParseHex(ChildText(ret, "size")) = <<arg.hjson.fields[1].bitinfo[2]>>
        ELSE FindChild(ret, "size") = 0

\* C3, amended: a register with exactly one field, named like the register
\* up to case, at lsb 0, gets no <fields> child and a <size> child holding
\* the field's width in decimal, as str() prints it ("8" for width 8); any
\* other register gets no <size> child.
C3_FlattenDecimalSize ==
    (pc = "generate_register" /\ err = None) =>
        IF FlattenCase(arg.hjson)
        THEN /\ FindChild(ret, "fields") = 0
             /\ Len(ChildrenTagged(ret, "size")) = 1
             /\ ParseDec(ChildText(ret, "size")) = <<arg.hjson.fields[1].bitinfo[2]>>
        ELSE FindChild(ret, "size") = 0

C3_Witness ==
    /\ pc = "generate_register"
    /\ err = None
    /\ arg.hjson.name = FOO
    /\ "fields" \in DOMAIN arg.hjson
    /\ Len(arg.hjson.fields) = 1
    /\ arg.hjson.fields[1].name = foo
    /\ arg.hjson.fields[1].bitinfo = <<0, 8, 0>>
    /\ FindChild(ret, "fields") = 0
    /\ ChildText(ret, "size") = <<"8">>

----------------------------------------------------------------------------
(* C4 *)

NodesOf(entry, base_) == generate_all_registers(<<entry>>, base_).val

\* C4: the nodes emitted for a register list are the nodes of its entries
\* concatenated in list order, a same-address group emitting its members in
\* member order and a cluster holding its members in genregs order; the
\* <field> nodes follow the field list; the <peripheral> nodes follow the
\* module list, one per module, repeated modules included.
C4_InputOrder ==
    /\ (pc = "generate_all_registers" /\ err = None) =>
        LET regs == arg.hjson
        IN  /\ ret = Flatten([k \in 1..Len(regs) |-> NodesOf(regs[k], base)])
            /\ \A k \in 1..Len(regs) :
                /\ ("sameaddr" \in DOMAIN regs[k] /\ ~IsReserved(regs[k])) =>
                    TextsOf(NodesOf(regs[k], base), "name")
                      = [j \in 1..Len(EmittedRegisters(regs[k].sameaddr)) |->
                            EmittedRegisters(regs[k].sameaddr)[j].name]
                /\ ("multireg" \in DOMAIN regs[k] /\ ~IsReserved(regs[k])) =>
                    TextsOf(ChildrenTagged(NodesOf(regs[k], base)[1], "register"),
                            "name")
                      = [j \in 1..Len(regs[k].multireg.genregs) |->
                            regs[k].multireg.genregs[j].name]
    /\ (pc = "generate_register" /\ err = None /\ FindChild(ret, "fields") # 0) =>
        TextsOf(ret.children[FindChild(ret, "fields")].children, "name")
          = [j \in 1..Len(arg.hjson.fields) |-> arg.hjson.fields[j].name]
    /\ (pc = "generate_device" /\ err = None) =>
        TextsOf(ret.children[FindChild(ret, "peripherals")].children, "name")
          = [k \in 1..Len(arg.hjson.module) |-> arg.hjson.module[k].name]

C4_Witness ==
    /\ pc = "generate_all_registers"
    /\ err = None
    /\ Len(arg.hjson) = 2
    /\ "sameaddr" \in DOMAIN arg.hjson[1]
    /\ "multireg" \in DOMAIN arg.hjson[2]
    /\ Len(ret) = 3
    /\ ret[1].tag = "register"
    /\ ret[2].tag = "register"
    /\ ret[3].tag = "cluster"
    /\ ChildText(ret[1], "name") # ChildText(ret[2], "name")

----------------------------------------------------------------------------
(* C5 *)

InsertAt(regs, p, entry) ==
    SubSeq(regs, 1, p) \o <<entry>> \o SubSeq(regs, p + 1, Len(regs))

RemoveAt(regs, p) == SubSeq(regs, 1, p - 1) \o SubSeq(regs, p + 1, Len(regs))

IsGroup(entry) ==
    "sameaddr" \in DOMAIN entry /\ ~IsReserved(entry) /\ "window" \notin DOMAIN entry

\* C5: inserting a reserved or skipto entry at any position of a register
\* list, or of a same-address group in it, or removing one, leaves the
\* outcome of generate_all_registers unchanged: the same nodes, or the same
\* exception; such an entry alone emits nothing, whatever other keys it has.
C5_ReservedIdempotent ==
    (pc = "generate_all_registers") =>
        LET regs == arg.hjson
            Same(r) == r.val = ret /\ r.err = err
        IN  /\ \A r \in ReservedEntries :
                /\ generate_all_registers(<<r>>, base) = Ok(<<>>)
                /\ \A p \in 0..Len(regs) :
                    Same(generate_all_registers(InsertAt(regs, p, r), base))
                /\ \A k \in 1..Len(regs) : IsGroup(regs[k]) =>
                    \A p \in 0..Len(regs[k].sameaddr) :
                        Same(generate_all_registers(
                            [regs EXCEPT ![k].sameaddr = InsertAt(@, p, r)], base))
            /\ \A p \in 1..Len(regs) : IsReserved(regs[p]) =>
                Same(generate_all_registers(RemoveAt(regs, p), base))
            /\ \A k \in 1..Len(regs) : IsGroup(regs[k]) =>
                \A p \in 1..Len(regs[k].sameaddr) :
                    IsReserved(regs[k].sameaddr[p]) =>
                        Same(generate_all_registers(
                            [regs EXCEPT ![k].sameaddr = RemoveAt(@, p)], base))

C5_Witness ==
    /\ pc = "generate_all_registers"
    /\ err = None
    /\ Len(arg.hjson) = 2
    /\ IsGroup(arg.hjson[1])
    /\ \E p \in 1..Len(arg.hjson[1].sameaddr) : IsReserved(arg.hjson[1].sameaddr[p])
    /\ IsReserved(arg.hjson[2])
    /\ Len(ret) = 2

----------------------------------------------------------------------------
(* C6 *)

NineLabels ==
    {None, <<"ro">>, <<"rc">>, <<"rw">>, <<"r0w1c">>, <<"rw1s">>, <<"rw1c">>,
     <<"rw0c">>, <<"wo">>}

\* the table of the access mapping, row by row
TableTriple(label) ==
    CASE label = None        -> <<None, None, None>>
      [] label = <<"ro">>    -> <<E("access.read_only"), None, None>>
      [] label = <<"rc">>    -> <<E("access.read_only"), E("readAction.clear"), None>>
      [] label = <<"rw">>    -> <<E("access.read_write"), None, None>>
      [] label = <<"r0w1c">> -> <<E("access.write_only"), None,
                                  E("modifiedWriteValues.oneToClear")>>
      [] label = <<"rw1s">>  -> <<E("access.read_write"), None,
                                  E("modifiedWriteValues.oneToSet")>>
      [] label = <<"rw1c">>  -> <<E("access.read_write"), None,
                                  E("modifiedWriteValues.oneToClear")>>
      [] label = <<"rw0c">>  -> <<E("access.read_write"), None,
                                  E("modifiedWriteValues.zeroToClear")>>
      [] label = <<"wo">>    -> <<E("access.write_only"), None, None>>

\* C6: sw_access_modes returns the table's triple for each of the nine
\* labels (the absent label included) and, for any other label, raises an
\* error that carries the label and returns no triple.
C6_AccessMapping ==
    (pc = "sw_access_modes") =>
        LET label == IF "swaccess" \in DOMAIN arg.hjson
                     THEN <<arg.hjson.swaccess>> ELSE None
        IN  IF label \in NineLabels
            THEN err = None /\ ret = TableTriple(label)
            ELSE /\ ret = None
                 /\ Len(err) = 2
                 /\ err[2] = label[1]

C6_Witness ==
    /\ pc = "sw_access_modes"
    /\ "swaccess" \in DOMAIN arg.hjson
    /\ arg.hjson.swaccess = "r0w1c"
    /\ ret = <<write_only, None, one_clears>>

----------------------------------------------------------------------------
(* C7 *)

HasPlaceholder(name) ==
    \E i \in 1..(Len(name) - 1) : name[i] = "%" /\ name[i + 1] = "s"

\* C7: the register generate_dim_register returns for a window has a name
\* that holds "%s": the template's name itself when it holds "%s" already,
\* and the template's name followed by one "%s" otherwise; its dim child is
\* the item count and its dimIncrement child is validbits/8 (the integer
\* quotient) in hexadecimal.
C7_WindowNaming ==
    (pc = "generate_dim_register" /\ err = None) =>
        LET name == ChildText(ret, "name")
        IN  /\ Len(ChildrenTagged(ret, "name")) = 1
            /\ HasPlaceholder(name)
            /\ IF HasPlaceholder(arg.hjson.name)
               THEN name = arg.hjson.name
               ELSE name = arg.hjson.name \o <<"%", "s">>
            /\ Len(ChildrenTagged(ret, "dim")) = 1
            /\ ParseDec(ChildText(ret, "dim")) = <<arg.hjson.items>>
            /\ Len(ChildrenTagged(ret, "dimIncrement")) = 1
            /\ ParseHex(ChildText(ret, "dimIncrement"))
                 = <<arg.hjson.genvalidbits \div 8>>

C7_Witness ==
    /\ pc = "generate_dim_register"
    /\ err = None
    /\ arg.hjson.name = BUF
    /\ arg.hjson.items = 2
    /\ arg.hjson.genvalidbits = 32
    /\ ChildText(ret, "name") = <<"B", "U", "F", "%", "s">>
    /\ ChildText(ret, "dim") = <<"2">>
    /\ ChildText(ret, "dimIncrement") = <<"0", "x", "4">>

----------------------------------------------------------------------------
(* C8 *)

Compiles(module) == generate_next_peripheral(module, ips).ok

Failing == {k \in 1..Len(top.module) : ~Compiles(top.module[k])}

\* C8: when some module of the top fails to compile, convert_top_to_svd
\* raises the error of the first such module in list order, returns no tree,
\* and nothing is written; a tree is returned only when every module
\* compiled, it holds one <peripheral> per module, and only a returned tree
\* is ever written.
C8_NoPartialTree ==
    /\ Failing # {} =>
        /\ pc \in {"ready", "raised"}
        /\ root = None
        /\ output = <<>>
        /\ pc = "raised" =>
            LET first == CHOOSE k \in Failing : \A j \in Failing : k <= j
            IN  err = generate_next_peripheral(top.module[first], ips).err
    /\ root # None =>
        /\ Failing = {}
        /\ Len(root[1].children[FindChild(root[1], "peripherals")].children)
             = Len(top.module)
    /\ output # <<>> => (root # None /\ output[Len(output)] = root[1])

C8_Witness ==
    /\ pc = "raised"
    /\ Len(top.module) = 2
    /\ Compiles(top.module[1])
    /\ top.module[2].type = "nested"
    /\ err = NestedMultireg
    /\ root = None
    /\ output = <<>>

----------------------------------------------------------------------------
(* C9 *)

\* C9: the peripheral generate_peripheral returns holds one <interrupt> per
\* entry of the interrupt list, in list order, the k-th (from 0) with the
\* k-th name and the value k, all before the <registers> child; without an
\* interrupt list it holds none.
C9_InterruptNumbering ==
    (pc = "generate_peripheral" /\ err = None) =>
        LET irqs == IF "interrupt_list" \in DOMAIN arg.hjson.ip
                    THEN arg.hjson.ip.interrupt_list ELSE <<>>
            nodes == ChildrenTagged(ret, "interrupt")
        IN  /\ Len(nodes) = Len(irqs)
            /\ \A k \in 1..Len(irqs) :
                /\ ChildText(nodes[k], "name") = irqs[k].name
                /\ ParseDec(ChildText(nodes[k], "value")) = <<k - 1>>
            /\ Len(ChildrenTagged(ret, "registers")) = 1
            /\ \A i \in 1..Len(ret.children) :
                ret.children[i].tag = "interrupt" => i < FindChild(ret, "registers")

C9_Witness ==
    /\ pc = "generate_peripheral"
    /\ err = None
    /\ "interrupt_list" \in DOMAIN arg.hjson.ip
    /\ Len(arg.hjson.ip.interrupt_list) = 3
    /\ TextsOf(ChildrenTagged(ret, "interrupt"), "value")
         = << <<"0">>, <<"1">>, <<"2">> >>
    /\ TextsOf(ChildrenTagged(ret, "interrupt"), "name") = <<BAR, FOO, BAR>>

----------------------------------------------------------------------------
(* C10 *)

\* C10 as stated: for width >= 1 generate_bitrange returns "[msb:lsb]" with
\* msb = lsb + width - 1, and for width < 1 it fails and returns nothing.
C10_BitRangeOrFail ==
    (pc = "generate_bitrange") =>
        LET width == arg.hjson.bitinfo[2]
            lsb == arg.hjson.bitinfo[3]
        IN  IF width >= 1
            THEN err = None /\ ParseBitRange(ret) = <<lsb + width - 1, lsb>>
            ELSE err # None /\ ret = None

\* C10, amended: for every width, generate_bitrange returns "[msb:lsb]" with
\* msb = lsb + width - 1 and does not fail: for width >= 1 this is the
\* inclusive range of the field (width 4, lsb 8: "[11:8]"), for width < 1 a
\* descriptor whose msb is below its lsb (width 0, lsb 8: "[7:8]").
C10_BitRange ==
    (pc = "generate_bitrange") =>
        LET width == arg.hjson.bitinfo[2]
            lsb == arg.hjson.bitinfo[3]
        IN  /\ err = None
            /\ ParseBitRange(ret) = <<lsb + width - 1, lsb>>
            /\ (width = 4 /\ lsb = 8) => ret = <<"[", "1", "1", ":", "8", "]">>
            /\ (width = 0 /\ lsb = 8) => ret = <<"[", "7", ":", "8", "]">>

C10_Witness ==
    /\ pc = "generate_bitrange"
    /\ arg.hjson.bitinfo[2] = 4
    /\ arg.hjson.bitinfo[3] = 8
    /\ ret = <<"[", "1", "1", ":", "8", "]">>

----------------------------------------------------------------------------
(* C11 *)

FieldsOf(reg) == IF "fields" \in DOMAIN reg THEN reg.fields ELSE <<>>

\* C11: a register that is not flattened and has at least one field gets
\* exactly one <fields> child, holding one <field> node per input field in
\* input order (each with that field's name and bit range); a register whose
\* field list is empty or absent gets no <fields> child at all.
C11_FieldsContainer ==
    (pc = "generate_register" /\ err = None /\ ~FlattenCase(arg.hjson)) =>
        LET fields == FieldsOf(arg.hjson)
            containers == ChildrenTagged(ret, "fields")
        IN  IF fields = <<>> THEN containers = <<>>
            ELSE /\ Len(containers) = 1
                 /\ Len(containers[1].children) = Len(fields)
                 /\ \A k \in 1..Len(fields) :
                        LET node == containers[1].children[k]
                        IN  /\ node.tag = "field"
                            /\ ChildText(node, "name") = fields[k].name
                            /\ ParseBitRange(ChildText(node, "bitRange"))
                                 = <<fields[k].bitinfo[3]
                                       + fields[k].bitinfo[2] - 1,
                                     fields[k].bitinfo[3]>>

----------------------------------------------------------------------------
(* C12 *)

\* every node of a tree, the root included
RECURSIVE Descendants(_)
Descendants(element) ==
    {element} \cup
    UNION {Descendants(element.children[i]) : i \in 1..Len(element.children)}

HasText(node) == node.text # None /\ Strip(node.text[1]) # <<>>

IsLeaf(node) == node.children = <<>> /\ HasText(node)

IsParent(node) == node.children # <<>> /\ ~HasText(node)

\* what the claim expects of the indented copy of a node built at `indent`
RECURSIVE Indented(_, _, _)
Indented(node, indented, indent) ==
    IF node.children # <<>>
    THEN /\ indented.children[Len(indented.children)].tail = <<indent>>
         /\ \A i \in 1..Len(node.children) :
                Indented(node.children[i], indented.children[i],
                         indent \o <<" ", " ">>)
    ELSE /\ node.text # None
         /\ indented.text = <<Strip(node.text[1])>>

\* C12: in the tree generate_device returns for a top with at least one
\* module (modules whose IP has an empty register list included), every node
\* is a leaf, with text and no children, or a parent, with at least one child
\* and no meaningful text, never both and never neither; and indent_tree
\* gives each parent's last child the parent's own indentation as its tail
\* and strips the text of each leaf.
C12_LeafOrParent ==
    (pc = "generate_device" /\ err = None /\ arg.hjson.module # <<>>) =>
        /\ \A node \in Descendants(ret) : IsLeaf(node) \/ IsParent(node)
        /\ Indented(ret, indent_tree(ret, <<"\n">>), <<"\n">>)

====
